---- MODULE Spec2Model ----
(***************************************************************************)
(* Model of the local LLM service (jiaweing/localLLM-api): the cache of    *)
(* loaded models (loadModel, the unload handler, the idle sweep            *)
(* unloadUnusedModels) and the chat-completion handler with its sessions.  *)
(*                                                                         *)
(* The server is one Node.js process: the code between two awaits runs     *)
(* atomically, so every action below is one such segment of a handler, of  *)
(* a timer callback, or the completion of an awaited engine call.          *)
(* A streaming chat completion adds the callbacks of its ReadableStream.   *)
(* Time is the value of Date.now(), advanced by Tick in steps of 15        *)
(* minutes; timers fire when they are due.                                 *)
(***************************************************************************)
EXTENDS Integers, Sequences, FiniteSets, TLC

(* ------------------------------ bounds --------------------------------- *)
\* requests the server receives in one run
MaxRequests == 3
\* chat requests among them
MaxChats == 2
\* requests in one run of the specification of load and unload
MaxManageRequests == 3
\* requests in one run of the specification of the listing, the last of
\* them the listing
MaxListRequests == 3
\* requests in one run of the specification of the sweep
MaxSweepRequests == 2
\* clock ticks in one run
MaxTicks == 3
\* text chunks the engine hands to onTextChunk in one generation
MaxTokens == 3
\* requests in one run of the specification of the inference endpoints
MaxInferRequests == 2
\* texts in the input array of an embeddings request
MaxInputs == 2
\* requests in one run of the specification of the embeddings endpoint
MaxEmbedRequests == 2
\* requests in one run of the specification of idle eviction
MaxIdleRequests == 2
\* requests in one run of the specification of the forms of a name
MaxNameRequests == 3
\* requests in one run of the specification of categories and contexts
MaxCategoryRequests == 2

(* ------------------------- program constants --------------------------- *)
\* unloadUnusedModels(maxAgeMs = 30 * 60 * 1000)
MaxAgeMs == 30 * 60 * 1000
\* setInterval(..., 15 * 60 * 1000)
SweepIntervalMs == 15 * 60 * 1000
\* setTimeout(..., 30 * 60 * 1000)
SessionTimeoutMs == 30 * 60 * 1000
\* the clock moves from one due time of the interval timer to the next
TickMs == SweepIntervalMs
MaxTime == MaxTicks * TickMs

\* the directories in the opposite order
MODEL_DIRS_Reversed == <<"chat", "reranker", "embedding">>

\* Object.values(MODEL_DIRS), in insertion order
MODEL_DIRS == <<"embedding", "reranker", "chat">>
Types == {MODEL_DIRS[i] : i \in 1..Len(MODEL_DIRS)}

\* A model name is a base followed by ext copies of ".gguf".
Name(base, ext) == [base |-> base, ext |-> ext]
\* the names and types requests carry
ReqNames == {Name("m", 0)}
ReqTypes == {"embedding", "chat"}
\* one name in its two forms: "m" and "m.gguf"
NameForms == {Name("m", 0), Name("m", 1)}
\* A name may lead through the parent directory: "../dir/base".
UpName(dir, base, ext) == [up |-> dir, base |-> base, ext |-> ext]
\* the names of requests that may be any string
AnyNames == ReqNames \cup {UpName("embedding", "m", 0)}

\* every request runs its handler as a task of its own; at most one run of
\* the sweep starts per tick of the clock
Tasks == 1..MaxRequests
Sweeps == 1..MaxTicks

VARIABLES
    now,            \* Date.now()
    loadedModels,   \* the Map, in insertion order: <<[path, ctx], ...>>
    modelContexts,  \* every ModelContext/model handle, by the request that made it
    task,           \* the request handlers, by the number of the request
    sweeps,         \* the runs of unloadUnusedModels, by the tick they start at
    nextSweepAt,    \* when the setInterval timer is due
    sessions,       \* every LlamaChatSession, by the request that made it
    requests,       \* requests received; a chat request's number names its Map
    unloaded,       \* history: paths unloaded with success, not acquired since
    returned,       \* history: how the last call of loadModel ended
    response        \* history: the last HTTP response

vars == <<now, loadedModels, modelContexts, task, sweeps, nextSweepAt,
          sessions, requests, unloaded, returned, response>>

(* ------------------------------ names ---------------------------------- *)
\* modelName.endsWith(".gguf") ? modelName : `${modelName}.gguf`
ModelFileName(modelName) ==
    IF modelName.ext >= 1 THEN modelName
    ELSE [modelName EXCEPT !.ext = 1]

\* path.join(dir, file): the segments are joined and the result normalised,
\* so "models/chat" with "../embedding/m.gguf" is "models/embedding/m.gguf"
PathJoin(dir, file) ==
    IF "up" \in DOMAIN file
    THEN [dir |-> file.up, file |-> Name(file.base, file.ext)]
    ELSE [dir |-> dir, file |-> file]

\* path.join(MODEL_DIRS[type], modelFileName)
ModelPath(modelName, type) == PathJoin(type, ModelFileName(modelName))

\* path.join(dir, model + ".gguf")
TestPath(dir, model) == PathJoin(dir, [model EXCEPT !.ext = @ + 1])

NoName == Name("", 0)
NoPath == PathJoin("", NoName)

(* ------------------------------ the Map -------------------------------- *)
MapKeys(m) == {m[i].path : i \in 1..Len(m)}
MapHas(m, p) == p \in MapKeys(m)
MapIndex(m, p) == CHOOSE i \in 1..Len(m) : m[i].path = p
MapGet(m, p) == m[MapIndex(m, p)].ctx
\* Map.set: an existing key keeps its place, a new key goes last
MapSet(m, p, c) ==
    IF MapHas(m, p)
    THEN [m EXCEPT ![MapIndex(m, p)] = [path |-> p, ctx |-> c]]
    ELSE Append(m, [path |-> p, ctx |-> c])
MapDelete(m, p) == SelectSeq(m, LAMBDA e : e.path # p)

\* A live Map iterator that has yielded idx entries: deleting one of them
\* moves the entries it has not yielded one place down.
IterAfterDelete(m, p, idx) ==
    IF MapHas(m, p) /\ MapIndex(m, p) <= idx THEN idx - 1 ELSE idx

Min(S) == CHOOSE x \in S : \A y \in S : x <= y


(* --------------------------- model handles ----------------------------- *)
\* const context: ModelContext = { model, lastUsed: Date.now() }
\* state, disposer and disposeCalls record what the engine did with the
\* handle; the code does not read them.
NewModelContext(p, type, t) ==
    [path |-> p, type |-> type, state |-> "live", disposer |-> "none",
     disposeCalls |-> 0, lastUsed |-> t,
     embeddingContext |-> FALSE, rankingContext |-> FALSE]

\* no ModelContext yet
NoModelContext ==
    [path |-> NoPath, type |-> "", state |-> "none", disposer |-> "none",
     disposeCalls |-> 0, lastUsed |-> 0,
     embeddingContext |-> FALSE, rankingContext |-> FALSE]

\* model.dispose() is called by who; disposeCalls saturates at 2
DisposeCall(mc, c, who) ==
    [mc EXCEPT ![c].disposeCalls = IF @ < 2 THEN @ + 1 ELSE @,
               ![c].state = IF @ = "live" THEN "disposing" ELSE @,
               ![c].disposer = IF @ = "none" THEN who ELSE @]

\* the awaited dispose() resolves
DisposeDone(mc, c) == [mc EXCEPT ![c].state = "disposed"]

\* the awaited dispose() rejects: the engine leaves the handle usable or not
DisposeFailed(mc, c, st) ==
    [mc EXCEPT ![c].state = IF @ = "disposed" THEN @ ELSE st]

(* ------------------------------ sessions ------------------------------- *)
\* `${model}-${Date.now()}`
SessionId(model, t) == <<model, t>>
NoSession == SessionId(NoName, 0 - 1)

\* chatSessions.get(sessionId) on the Map of chat request map
ChatSessionsGet(ss, map, sid) ==
    {i \in DOMAIN ss : ss[i].map = map /\ ss[i].inMap /\ ss[i].id = sid}

(* ------------------------- the response stream ------------------------- *)
\* Strings are sequences of characters. The text chunks of the engine:
Chars == {"a", " ", "\n"}
Tokens == {<<c>> : c \in Chars} \cup {<<" ", "a">>}

\* s.includes(c)
Includes(s, c) == \E i \in 1..Len(s) : s[i] = c

\* the test for a space alone
HasSpace(buffer) == Includes(buffer, " ")

\* buffer.includes(" ") || buffer.includes("\n")
HasWhitespace(buffer) == Includes(buffer, " ") \/ Includes(buffer, "\n")

\* The ReadableStream of a streaming response and the closure of its
\* start(controller): buffer, the frames enqueued so far, and what the
\* engine has generated (text: all chunks, tokens: their number). cancelAt
\* is the number of chunks generated when the client went away, outcome
\* how session.prompt() ended; the code reads neither.
NoStream ==
    [state |-> "none", buffer |-> <<>>, frames |-> <<>>, text |-> <<>>,
     tokens |-> 0, cancelAt |-> 0 - 1, outcome |-> "none"]

\* new ReadableStream({start}), let buffer = ""
NewStream == [NoStream EXCEPT !.state = "readable"]

\* `data: ${JSON.stringify(chunk)}\n\n` with delta.content and finish_reason
ChunkFrame(content, finish) == [content |-> content, finish |-> finish]
\* "data: [DONE]\n\n"
DoneFrame == [content |-> <<"[DONE]">>, finish |-> "done"]

\* controller.enqueue throws a TypeError on a stream that is not readable
CanEnqueue(st) == st.state = "readable"

\* controller.error(e): errors a readable stream, does nothing otherwise
ControllerError(st) ==
    IF st.state = "readable" THEN [st EXCEPT !.state = "errored"] ELSE st

(* ------------------------- embeddings requests ------------------------ *)
\* the texts requests embed, and the input of a request: one string, or an
\* array of strings
Texts == {"a", "b"}
\* the array of n texts in which neighbours differ
Alternating(n) == [i \in 1..n |-> IF i % 2 = 1 THEN "a" ELSE "b"]
Inputs ==
    {[array |-> FALSE, items |-> <<x>>] : x \in Texts}
    \cup {[array |-> TRUE, items |-> Alternating(n)] : n \in 0..MaxInputs}
\* the inputs that are one string
StringInputs == {input \in Inputs : ~input.array}
NoInput == [array |-> FALSE, items |-> <<>>]

\* Array.isArray(input) ? input : [input]
AsInputs(input) == input.items

\* what embeddingContext.getEmbeddingFor(text) resolves with: [...vector]
Embed(text) == <<"vector", text>>

\* the index is taken one too high
EmbeddingEntryFromOne(embeddings, text) ==
    [embedding |-> Embed(text), index |-> Len(embeddings) + 1]

\* { embedding: [...embedding.vector], index: embeddings.length }
EmbeddingEntry(embeddings, text) ==
    [embedding |-> Embed(text), index |-> Len(embeddings)]

(* ------------------------------- tasks --------------------------------- *)
IdleTask ==
    [pc |-> "idle", op |-> "none", model |-> NoName, type |-> "",
     modelPath |-> NoPath, ctx |-> 0,
     chatSessions |-> 0, sessionId |-> NoSession, session |-> 0,
     stream |-> NoStream, pending |-> {}, listing |-> {},
     input |-> NoInput, embeddings |-> <<>>]

\* The handler answers with an HTTP status. code and message are the body's
\* error.code and the path its message quotes, models the array of
\* GET /v1/models.
Response(r, status) ==
    [op |-> r.op, model |-> r.model, path |-> r.modelPath, status |-> status,
     code |-> "null", message |-> NoPath, models |-> {},
     input |-> r.input, data |-> <<>>]
NoResponse ==
    Response([op |-> "none", model |-> NoName, modelPath |-> NoPath,
              input |-> NoInput], 0)

\* loadModel resolves with ModelContext c (mc: the handles then): what the
\* handler gets, and whether the call loaded the model or found it (hit)
Returned(r, c, hit, mc) ==
    [path |-> r.modelPath, ctx |-> c, state |-> mc[c].state,
     by |-> mc[c].disposer, hit |-> hit, error |-> "none"]
\* loadModel rejects with the error of the engine
Thrown(r, code) ==
    [path |-> r.modelPath, ctx |-> 0, state |-> "none", by |-> "none",
     hit |-> FALSE, error |-> code]
NoReturn == Thrown(IdleTask, "none")

\* the operations of POST /v1/chat/completions: stream false, stream true
ChatOps == {"chat", "stream"}

\* if (stream): session.prompt() is called by start(controller) of a new
\* ReadableStream; else by the handler itself
CallPrompt(r) ==
    IF r.op = "stream"
    THEN [r EXCEPT !.pc = "streamPrompt", !.stream = NewStream]
    ELSE [r EXCEPT !.pc = "prompt"]

\* POST /v1/chat/completions after loadModel: the session id, the lookup in
\* the request's own chatSessions, and the call of createContext or prompt
ChatAfterLoad(r) ==
    LET sid == SessionId(r.model, now)
        got == ChatSessionsGet(sessions, r.chatSessions, sid)
    IN  IF got = {}
        THEN [r EXCEPT !.sessionId = sid, !.pc = "chatCreateContext"]
        ELSE CallPrompt([r EXCEPT !.sessionId = sid, !.session = Min(got)])

\* POST /v1/embeddings after loadModel: 400 without an embedding context,
\* else the loop over the inputs, up to its first getEmbeddingFor
EmbeddingsAfterLoad(r) ==
    IF ~modelContexts'[r.ctx].embeddingContext \/ AsInputs(r.input) = <<>>
    THEN IdleTask
    ELSE [r EXCEPT !.pc = "getEmbeddingFor"]

EmbeddingsAfterLoadResponse(r) ==
    IF ~modelContexts'[r.ctx].embeddingContext THEN Response(r, 400)
    ELSE IF AsInputs(r.input) = <<>> THEN Response(r, 200)
    ELSE response

\* POST /v1/rerank after loadModel: 400 without a ranking context, else
\* rankAndSort is called
RerankAfterLoad(r) ==
    IF ~modelContexts'[r.ctx].rankingContext THEN IdleTask
    ELSE [r EXCEPT !.pc = "rankAndSort"]

RerankAfterLoadResponse(r) ==
    IF ~modelContexts'[r.ctx].rankingContext THEN Response(r, 400)
    ELSE response

\* The handler that awaited loadModel goes on with ModelContext c:
\* /v1/models/load answers 200, chat completions go on to the session,
\* embeddings and rerank to their engine calls.
Resume(r, c) ==
    IF r.op \in ChatOps THEN ChatAfterLoad([r EXCEPT !.ctx = c])
    ELSE IF r.op = "embeddings" THEN EmbeddingsAfterLoad([r EXCEPT !.ctx = c])
    ELSE IF r.op = "rerank" THEN RerankAfterLoad([r EXCEPT !.ctx = c])
    ELSE IdleTask

ResumeResponse(r, c) ==
    IF r.op \in ChatOps THEN response
    ELSE IF r.op = "embeddings"
         THEN EmbeddingsAfterLoadResponse([r EXCEPT !.ctx = c])
    ELSE IF r.op = "rerank" THEN RerankAfterLoadResponse([r EXCEPT !.ctx = c])
    ELSE Response(r, 200)

\* the code of an error the engine throws: a missing file, or anything else
ErrorCodes == {"ENOENT", "other"}

\* the HTTP status of the handlers' catch blocks
ErrorStatus(code) == IF code = "ENOENT" THEN 404 ELSE 500

\* the endpoints whose error body has the OpenAI shape
OpenAIOps == {"embeddings", "rerank", "chat", "stream"}

\* the body for ENOENT names an error of another kind
ErrorBodyNoCode(r, code, p) ==
    [Response(r, ErrorStatus(code)) EXCEPT
        !.message = IF code = "ENOENT" THEN p ELSE NoPath]

\* The catch block of a handler, for an error with this code and, if it is a
\* file system error, this path: 404 with code "model_not_found" and the
\* path in the message, or 500 with the error's message.
ErrorResponse(r, code, p) ==
    [Response(r, ErrorStatus(code)) EXCEPT
        !.code = IF code = "ENOENT" /\ r.op \in OpenAIOps
                 THEN "model_not_found" ELSE "null",
        !.message = IF code = "ENOENT" THEN p ELSE NoPath]

(* ------------------------------ loadModel ------------------------------ *)
\* loadModel up to its first await: a cache hit refreshes lastUsed and
\* returns the record, a miss calls llama.loadModel
LoadModelWith(t, r0, modelName, type) ==
    LET p == ModelPath(modelName, type)
        r == [r0 EXCEPT !.model = modelName, !.type = type, !.modelPath = p]
    IN  /\ t = requests + 1
        /\ requests' = requests + 1
        /\ unloaded' = unloaded \ {p}
        /\ IF MapHas(loadedModels, p)
           THEN LET c == MapGet(loadedModels, p)
                    mc == [modelContexts EXCEPT ![c].lastUsed = now]
                IN  /\ modelContexts' = mc
                    /\ task' = [task EXCEPT ![t] = Resume(r, c)]
                    /\ returned' = Returned(r, c, TRUE, mc)
                    /\ response' = ResumeResponse(r, c)
           ELSE /\ task' = [task EXCEPT ![t] = [r EXCEPT !.pc = "llamaLoadModel"]]
                /\ UNCHANGED <<modelContexts, returned, response>>
        /\ UNCHANGED <<now, loadedModels, sweeps, nextSweepAt, sessions>>

\* loadModel called by the handler of op (map: its chatSessions, if any)
LoadModelCall(t, op, modelName, type, map) ==
    LoadModelWith(t, [IdleTask EXCEPT !.op = op, !.chatSessions = map],
                  modelName, type)

\* POST /v1/models/load
LoadRequest(t, modelName, type) ==
    LoadModelCall(t, "load", modelName, type, 0)

\* llama.loadModel resolves: the ModelContext is built; a chat model is put
\* in the Map at once, the other types first await their context
LlamaLoadModelReturn(t) ==
    LET r == task[t]
        c == t
        mc == [modelContexts EXCEPT
                 ![c] = NewModelContext(r.modelPath, r.type, now)]
    IN  /\ r.pc = "llamaLoadModel"
        /\ IF r.type \in {"embedding", "reranker"}
           THEN /\ modelContexts' = mc
                /\ task' = [task EXCEPT ![t] = [r EXCEPT !.pc = "createContext",
                                                         !.ctx = c]]
                /\ UNCHANGED <<loadedModels, returned, response>>
           ELSE /\ modelContexts' = mc
                /\ loadedModels' = MapSet(loadedModels, r.modelPath, c)
                /\ task' = [task EXCEPT ![t] = Resume(r, c)]
                /\ returned' = Returned(r, c, FALSE, mc)
                /\ response' = ResumeResponse(r, c)
        /\ UNCHANGED <<now, sweeps, nextSweepAt, sessions, requests, unloaded>>

\* llama.loadModel rejects (code: the error's code; the path of a file
\* system error is the modelPath the engine was given): loadModel rejects,
\* the handler's catch block answers
LlamaLoadModelThrow(t, code) ==
    /\ task[t].pc = "llamaLoadModel"
    /\ task' = [task EXCEPT ![t] = IdleTask]
    /\ returned' = Thrown(task[t], code)
    /\ response' = ErrorResponse(task[t], code, task[t].modelPath)
    /\ UNCHANGED <<now, loadedModels, modelContexts, sweeps, nextSweepAt,
                   sessions, requests, unloaded>>

\* model.createEmbeddingContext() / createRankingContext() resolves
CreateContextReturn(t) ==
    LET r == task[t]
        c == r.ctx
        mc == IF r.type = "embedding"
              THEN [modelContexts EXCEPT ![c].embeddingContext = TRUE]
              ELSE [modelContexts EXCEPT ![c].rankingContext = TRUE]
    IN  /\ r.pc = "createContext"
        /\ modelContexts' = mc
        /\ loadedModels' = MapSet(loadedModels, r.modelPath, c)
        /\ task' = [task EXCEPT ![t] = Resume(r, c)]
        /\ returned' = Returned(r, c, FALSE, mc)
        /\ response' = ResumeResponse(r, c)
        /\ UNCHANGED <<now, sweeps, nextSweepAt, sessions, requests, unloaded>>

\* model.createEmbeddingContext() / createRankingContext() rejects
CreateContextThrow(t, code) ==
    /\ task[t].pc = "createContext"
    /\ task' = [task EXCEPT ![t] = IdleTask]
    /\ returned' = Thrown(task[t], code)
    /\ response' = ErrorResponse(task[t], code, NoPath)
    /\ UNCHANGED <<now, loadedModels, modelContexts, sweeps, nextSweepAt,
                   sessions, requests, unloaded>>

(* --------------------------- POST /v1/embeddings ----------------------- *)
\* the handler up to its first await
EmbeddingsRequest(t, modelName, input) ==
    LoadModelWith(t, [IdleTask EXCEPT !.op = "embeddings", !.input = input],
                  modelName, "embedding")

\* getEmbeddingFor(text) resolves for the next text of the inputs: its entry
\* is pushed; the loop calls getEmbeddingFor for the text after it, or the
\* handler answers with the entries
GetEmbeddingForReturn(t) ==
    LET r == task[t]
        text == AsInputs(r.input)[Len(r.embeddings) + 1]
        embeddings == Append(r.embeddings, EmbeddingEntry(r.embeddings, text))
    IN  /\ r.pc = "getEmbeddingFor"
        /\ IF Len(embeddings) < Len(AsInputs(r.input))
           THEN /\ task' = [task EXCEPT ![t].embeddings = embeddings]
                /\ UNCHANGED response
           ELSE /\ task' = [task EXCEPT ![t] = IdleTask]
                /\ response' = [Response(r, 200) EXCEPT !.data = embeddings]
        /\ UNCHANGED <<now, loadedModels, modelContexts, sweeps, nextSweepAt,
                       sessions, requests, unloaded, returned>>

\* getEmbeddingFor(text) rejects: the catch block answers
GetEmbeddingForThrow(t, code) ==
    /\ task[t].pc = "getEmbeddingFor"
    /\ task' = [task EXCEPT ![t] = IdleTask]
    /\ response' = ErrorResponse(task[t], code, NoPath)
    /\ UNCHANGED <<now, loadedModels, modelContexts, sweeps, nextSweepAt,
                   sessions, requests, unloaded, returned>>

(* ----------------------------- POST /v1/rerank ------------------------- *)
\* the handler up to its first await
RerankRequest(t, modelName) ==
    LoadModelCall(t, "rerank", modelName, "reranker", 0)

\* rankingContext.rankAndSort(query, documents) resolves: the handler answers
RankAndSortReturn(t) ==
    /\ task[t].pc = "rankAndSort"
    /\ task' = [task EXCEPT ![t] = IdleTask]
    /\ response' = Response(task[t], 200)
    /\ UNCHANGED <<now, loadedModels, modelContexts, sweeps, nextSweepAt,
                   sessions, requests, unloaded, returned>>

\* rankAndSort rejects: the catch block answers
RankAndSortThrow(t, code) ==
    /\ task[t].pc = "rankAndSort"
    /\ task' = [task EXCEPT ![t] = IdleTask]
    /\ response' = ErrorResponse(task[t], code, NoPath)
    /\ UNCHANGED <<now, loadedModels, modelContexts, sweeps, nextSweepAt,
                   sessions, requests, unloaded, returned>>

(* ------------------------- POST /v1/models/unload ---------------------- *)
\* the first directory, in the order of MODEL_DIRS, whose test path is loaded
FindLoaded(m, model) ==
    LET found == {i \in 1..Len(MODEL_DIRS) :
                     MapHas(m, TestPath(MODEL_DIRS[i], model))}
    IN  IF found = {} THEN NoPath ELSE TestPath(MODEL_DIRS[Min(found)], model)

\* the names requests unload: one that is loaded at times, one that never is
UnloadNames == ReqNames \cup {Name("n", 0)}

\* the not-found condition answered as a failure
UnloadNotFoundAsError(r) == Response(r, 500)

\* return c.json({ error: "Model not found or not loaded" }, 404)
UnloadNotFound(r) == Response(r, 404)

\* the handler up to its await of dispose()
UnloadRequest(t, model) ==
    LET p == FindLoaded(loadedModels, model)
        r == [IdleTask EXCEPT !.op = "unload", !.model = model,
                              !.modelPath = p]
    IN  /\ t = requests + 1
        /\ requests' = requests + 1
        /\ IF p = NoPath
           THEN /\ response' = UnloadNotFound(r)
                /\ UNCHANGED <<task, modelContexts>>
           ELSE LET c == MapGet(loadedModels, p)
                IN  /\ modelContexts' = DisposeCall(modelContexts, c, "unload")
                    /\ task' = [task EXCEPT ![t] = [r EXCEPT !.pc = "dispose",
                                                             !.ctx = c]]
                    /\ UNCHANGED response
        /\ UNCHANGED <<now, loadedModels, sweeps, nextSweepAt, sessions,
                       unloaded, returned>>

\* dispose() resolves: loadedModels.delete(modelPath), 200
UnloadDisposeReturn(t) ==
    LET r == task[t]
        p == r.modelPath
    IN  /\ r.pc = "dispose"
        /\ modelContexts' = DisposeDone(modelContexts, r.ctx)
        /\ loadedModels' = MapDelete(loadedModels, p)
        /\ sweeps' = [s \in Sweeps |->
              [sweeps[s] EXCEPT !.idx = IterAfterDelete(loadedModels, p, @)]]
        /\ unloaded' = unloaded \cup {p}
        /\ task' = [task EXCEPT ![t] = IdleTask]
        /\ response' = Response(r, 200)
        /\ UNCHANGED <<now, nextSweepAt, sessions, requests, returned>>

\* dispose() rejects: the catch block answers 500, the entry stays
UnloadDisposeThrow(t, st) ==
    /\ task[t].pc = "dispose"
    /\ modelContexts' = DisposeFailed(modelContexts, task[t].ctx, st)
    /\ task' = [task EXCEPT ![t] = IdleTask]
    /\ response' = Response(task[t], 500)
    /\ UNCHANGED <<now, loadedModels, sweeps, nextSweepAt, sessions, requests,
                   unloaded, returned>>

(* ----------------------------- GET /v1/models -------------------------- *)
\* what fs.readdir finds in each of the model directories
Files == {Name("m", 1), Name("readme", 0)}

\* file.endsWith(".gguf")
EndsWithGguf(file) == file.ext >= 1

\* path.basename(file, ".gguf")
Basename(file) == [file EXCEPT !.ext = @ - 1]

\* the listing looks the artifact up under its name without the extension
ListedByName(dir, m) ==
    {[name |-> Basename(f), type |-> dir,
      loaded |-> MapHas(m, PathJoin(dir, Basename(f)))] :
        f \in {g \in Files : EndsWithGguf(g)}}

\* files.filter(...).map(file => ({ name, type, loaded })) for one directory
Listed(dir, m) ==
    {[name |-> Basename(f), type |-> dir,
      loaded |-> MapHas(m, PathJoin(dir, f))] :
        f \in {g \in Files : EndsWithGguf(g)}}

\* the handler up to the await of Promise.all: one readdir per directory
ListRequest(t) ==
    /\ t = requests + 1
    /\ requests' = requests + 1
    /\ task' = [task EXCEPT ![t] = [IdleTask EXCEPT !.pc = "readdir",
                                                     !.op = "list",
                                                     !.pending = Types]]
    /\ UNCHANGED <<now, loadedModels, modelContexts, sweeps, nextSweepAt,
                   sessions, unloaded, returned, response>>

\* One of the directories is done with the entries got (none when its
\* readdir failed); when it was the last one, the flattened array is sent.
ReaddirDone(t, dir, got) ==
    LET r == [task[t] EXCEPT !.pending = @ \ {dir}, !.listing = @ \cup got]
    IN  /\ task[t].pc = "readdir"
        /\ dir \in task[t].pending
        /\ IF r.pending = {}
           THEN /\ task' = [task EXCEPT ![t] = IdleTask]
                /\ response' = [Response(r, 200) EXCEPT !.models = r.listing]
           ELSE /\ task' = [task EXCEPT ![t] = r]
                /\ UNCHANGED response
        /\ UNCHANGED <<now, loadedModels, modelContexts, sweeps, nextSweepAt,
                       sessions, requests, unloaded, returned>>

\* fs.readdir(dir) resolves: the entries of dir are computed from the Map
ReaddirReturn(t, dir) == ReaddirDone(t, dir, Listed(dir, loadedModels))

\* fs.readdir(dir) rejects: the inner catch returns []
ReaddirThrow(t, dir) == ReaddirDone(t, dir, {})

(* -------------------------- unloadUnusedModels ------------------------- *)
\* the comparison with >= for >
IdleTooLongOrEqual(sweepNow, lastUsed) == sweepNow - lastUsed >= MaxAgeMs

\* the threshold taken twice
IdleTooLongTwice(sweepNow, lastUsed) == sweepNow - lastUsed > 2 * MaxAgeMs

\* now - context.lastUsed > maxAgeMs
IdleTooLong(sweepNow, lastUsed) == sweepNow - lastUsed > MaxAgeMs

\* a run of the sweep; examined, disposed and removed record what it saw,
\* what it called dispose() on and what its delete() took from the Map
IdleSweep == [pc |-> "idle", now |-> 0, idx |-> 0, path |-> NoPath,
              ctx |-> 0, examined |-> {}, disposed |-> {}, removed |-> {}]

\* what the loop saw of the entries from..to of the Map: the record and its
\* lastUsed then
Examined(m, mc, from, to) ==
    {[ctx |-> m[j].ctx, lastUsed |-> mc[m[j].ctx].lastUsed] : j \in from..to}

\* The for-of loop from the entry after idx up to its next await (the
\* dispose() of the first entry that is idle too long) or to its end.
SweepLoop(sw, m, mc, idx) ==
    LET idle == {j \in (idx + 1)..Len(m) :
                    IdleTooLong(sw.now, mc[m[j].ctx].lastUsed)}
    IN  IF idle = {}
        THEN [sw EXCEPT !.pc = "done", !.idx = 0, !.path = NoPath, !.ctx = 0,
                 !.examined = @ \cup Examined(m, mc, idx + 1, Len(m))]
        ELSE [sw EXCEPT !.pc = "dispose", !.idx = Min(idle),
                 !.path = m[Min(idle)].path, !.ctx = m[Min(idle)].ctx,
                 !.disposed = @ \cup {m[Min(idle)].ctx},
                 !.examined = @ \cup Examined(m, mc, idx + 1, Min(idle))]

\* the handles after the loop has run to sw: its dispose() call, if any
SweepCalls(mc, sw) ==
    IF sw.pc = "dispose" THEN DisposeCall(mc, sw.ctx, "sweep") ELSE mc

\* The setInterval callback: unloadUnusedModels() takes Date.now() and runs
\* to its first await.
SweepStart ==
    LET sw == SweepLoop([IdleSweep EXCEPT !.now = now],
                        loadedModels, modelContexts, 0)
    IN  /\ now >= nextSweepAt
        /\ nextSweepAt' = now + SweepIntervalMs
        /\ sweeps' = [sweeps EXCEPT ![now \div TickMs] = sw]
        /\ modelContexts' = SweepCalls(modelContexts, sw)
        /\ UNCHANGED <<now, loadedModels, task, sessions, requests, unloaded,
                       returned, response>>

\* dispose() resolves in the sweep: loadedModels.delete(path), and the loop
\* goes on with what the iterator yields next
SweepDisposeReturn(s) ==
    LET old == sweeps[s]
        mc1 == DisposeDone(modelContexts, old.ctx)
        m1 == MapDelete(loadedModels, old.path)
        gone == IF MapHas(loadedModels, old.path)
                THEN {MapGet(loadedModels, old.path)} ELSE {}
        sw == SweepLoop([old EXCEPT !.removed = @ \cup gone], m1, mc1,
                        IterAfterDelete(loadedModels, old.path, old.idx))
    IN  /\ old.pc = "dispose"
        /\ loadedModels' = m1
        /\ modelContexts' = SweepCalls(mc1, sw)
        /\ sweeps' = [x \in Sweeps |->
              IF x = s THEN sw
              ELSE [sweeps[x] EXCEPT
                      !.idx = IterAfterDelete(loadedModels, old.path, @)]]
        /\ UNCHANGED <<now, task, nextSweepAt, sessions, requests, unloaded,
                       returned, response>>

\* dispose() rejects in the sweep: unloadUnusedModels rejects, the interval's
\* catch logs it; the entry stays
SweepDisposeThrow(s, st) ==
    /\ sweeps[s].pc = "dispose"
    /\ modelContexts' = DisposeFailed(modelContexts, sweeps[s].ctx, st)
    /\ sweeps' = [sweeps EXCEPT ![s] = [@ EXCEPT !.pc = "failed", !.idx = 0]]
    /\ UNCHANGED <<now, loadedModels, task, nextSweepAt, sessions, requests,
                   unloaded, returned, response>>

(* ----------------------- POST /v1/chat/completions --------------------- *)
\* the handler up to its first await: a new chatSessions Map, loadModel
ChatRequest(t, modelName) ==
    /\ requests < MaxChats
    /\ LoadModelCall(t, "chat", modelName, "chat", requests + 1)

\* no session yet
NoChatSession ==
    [id |-> NoSession, map |-> 0, ctx |-> 0, createdAt |-> 0, timerAt |-> 0,
     inMap |-> FALSE, fired |-> FALSE, firedAt |-> 0 - 1, promptedAt |-> 0 - 1]

\* the setTimeout of session i has not run yet
TimerPending(i) == sessions[i].map # 0 /\ ~sessions[i].fired

\* the session the handler builds, and the timer it sets
NewSession(r, t) ==
    [id |-> r.sessionId, map |-> r.chatSessions, ctx |-> r.ctx,
     createdAt |-> t, timerAt |-> t + SessionTimeoutMs, inMap |-> TRUE,
     fired |-> FALSE, firedAt |-> 0 - 1, promptedAt |-> 0 - 1]

\* createContext() resolves: the session is stored under sessionId, its
\* timer is set and prompt() is called; a streaming request answers with
\* the Response that carries the stream
ChatCreateContextReturn(t) ==
    LET r == task[t]
    IN  /\ r.pc = "chatCreateContext"
        /\ sessions' = [sessions EXCEPT ![t] = NewSession(r, now)]
        /\ task' = [task EXCEPT ![t] = CallPrompt([r EXCEPT !.session = t])]
        /\ response' = IF r.op = "stream" THEN Response(r, 200) ELSE response
        /\ UNCHANGED <<now, loadedModels, modelContexts, sweeps, nextSweepAt,
                       requests, unloaded, returned>>

\* createContext() rejects: the catch block answers
ChatCreateContextThrow(t, code) ==
    /\ task[t].pc = "chatCreateContext"
    /\ task' = [task EXCEPT ![t] = IdleTask]
    /\ response' = ErrorResponse(task[t], code, NoPath)
    /\ UNCHANGED <<now, loadedModels, modelContexts, sweeps, nextSweepAt,
                   sessions, requests, unloaded, returned>>

\* session.prompt() resolves: the response is sent (promptedAt records the
\* time of the successful prompt; the code keeps no such field)
PromptReturn(t) ==
    /\ task[t].pc = "prompt"
    /\ sessions' = [sessions EXCEPT ![task[t].session].promptedAt = now]
    /\ task' = [task EXCEPT ![t] = IdleTask]
    /\ response' = Response(task[t], 200)
    /\ UNCHANGED <<now, loadedModels, modelContexts, sweeps, nextSweepAt,
                   requests, unloaded, returned>>

\* session.prompt() rejects: the catch block answers
PromptThrow(t, code) ==
    /\ task[t].pc = "prompt"
    /\ task' = [task EXCEPT ![t] = IdleTask]
    /\ response' = ErrorResponse(task[t], code, NoPath)
    /\ UNCHANGED <<now, loadedModels, modelContexts, sweeps, nextSweepAt,
                   sessions, requests, unloaded, returned>>

\* the setTimeout callback: chatSessions.delete(sessionId)
SessionTimeout(i) ==
    /\ TimerPending(i)
    /\ now >= sessions[i].timerAt
    /\ sessions' = [j \in Tasks |->
          IF j = i
          THEN [sessions[j] EXCEPT !.fired = TRUE, !.firedAt = now,
                                   !.inMap = FALSE]
          ELSE IF sessions[j].map = sessions[i].map
                  /\ sessions[j].id = sessions[i].id
               THEN [sessions[j] EXCEPT !.inMap = FALSE]
               ELSE sessions[j]]
    /\ UNCHANGED <<now, loadedModels, modelContexts, task, sweeps,
                   nextSweepAt, requests, unloaded, returned, response>>

(* ------------- POST /v1/chat/completions with stream: true ------------- *)
\* the one request whose stream is followed: every stream has a buffer and
\* a controller of its own
StreamTasks == {1}

\* the handler up to its first await, as for stream: false
ChatStreamRequest(t, modelName) ==
    /\ t \in StreamTasks
    /\ LoadModelCall(t, "stream", modelName, "chat", requests + 1)

\* the catch of start(controller): controller.error(error)
StreamCatch(r, st) ==
    [r EXCEPT !.pc = "streamEnded",
              !.stream = ControllerError([st EXCEPT !.outcome = "rejected"])]

\* the chunk is enqueued and the buffer is not reset
FlushedKeepBuffer(st, finish) ==
    [st EXCEPT !.frames = Append(@, ChunkFrame(st.buffer, finish))]

\* controller.enqueue of the buffer as one chunk, then buffer = ""
Flushed(st, finish) ==
    [st EXCEPT !.frames = Append(@, ChunkFrame(st.buffer, finish)),
               !.buffer = <<>>]

\* onTextChunk(token), called by the engine during session.prompt(). On a
\* stream the client has left, enqueue throws inside the callback, before
\* the buffer is reset: the engine either drops the exception and goes on
\* (swallowed) or lets it reject prompt().
OnTextChunk(t, token, swallowed) ==
    LET r == task[t]
        st == [r.stream EXCEPT !.buffer = @ \o token, !.text = @ \o token,
                               !.tokens = @ + 1]
    IN  /\ r.pc = "streamPrompt"
        /\ r.stream.tokens < MaxTokens
        /\ task' = [task EXCEPT ![t] =
              IF ~HasWhitespace(st.buffer) THEN [r EXCEPT !.stream = st]
              ELSE IF CanEnqueue(st)
                   THEN [r EXCEPT !.stream = Flushed(st, "null")]
                   ELSE IF swallowed THEN [r EXCEPT !.stream = st]
                        ELSE StreamCatch(r, st)]
        /\ UNCHANGED <<now, loadedModels, modelContexts, sweeps, nextSweepAt,
                       sessions, requests, unloaded, returned, response>>

\* the frames after prompt() has resolved: the rest of the buffer, [DONE]
Finished(st) ==
    LET rest == IF st.buffer # <<>> THEN Flushed(st, "stop") ELSE st
    IN  [rest EXCEPT !.frames = Append(@, DoneFrame), !.state = "closed"]

\* session.prompt() resolves in start(controller): the rest of the buffer
\* and [DONE] are enqueued and the stream is closed; on a stream that is
\* not readable the first enqueue throws and the catch runs
StreamPromptReturn(t) ==
    LET r == task[t]
        st == [r.stream EXCEPT !.outcome = "resolved"]
    IN  /\ r.pc = "streamPrompt"
        /\ sessions' = [sessions EXCEPT ![r.session].promptedAt = now]
        /\ task' = [task EXCEPT ![t] =
              [r EXCEPT !.pc = "streamEnded",
                        !.stream = IF CanEnqueue(st) THEN Finished(st)
                                   ELSE ControllerError(st)]]
        /\ UNCHANGED <<now, loadedModels, modelContexts, sweeps, nextSweepAt,
                       requests, unloaded, returned, response>>

\* session.prompt() rejects in start(controller)
StreamPromptThrow(t) ==
    /\ task[t].pc = "streamPrompt"
    /\ task' = [task EXCEPT ![t] = StreamCatch(task[t], task[t].stream)]
    /\ UNCHANGED <<now, loadedModels, modelContexts, sweeps, nextSweepAt,
                   sessions, requests, unloaded, returned, response>>

\* The client disconnects: the server cancels the stream it was reading.
\* The ReadableStream has no cancel() and prompt() is given no signal.
ClientDisconnect(t) ==
    /\ task[t].pc = "streamPrompt"
    /\ task[t].stream.state = "readable"
    /\ task' = [task EXCEPT ![t].stream =
          [@ EXCEPT !.state = "cancelled", !.cancelAt = task[t].stream.tokens]]
    /\ UNCHANGED <<now, loadedModels, modelContexts, sweeps, nextSweepAt,
                   sessions, requests, unloaded, returned, response>>

(* ------------------------------- time ---------------------------------- *)
\* a timer that is due runs before the clock moves on
TimerDue ==
    \/ now >= nextSweepAt
    \/ \E i \in Tasks : TimerPending(i) /\ now >= sessions[i].timerAt

\* the clock moves on (a run of the sweep that has ended is forgotten)
Tick ==
    /\ now < MaxTime
    /\ ~TimerDue
    /\ now' = now + TickMs
    /\ sweeps' = [s \in Sweeps |->
          IF sweeps[s].pc = "dispose" THEN sweeps[s] ELSE IdleSweep]
    /\ UNCHANGED <<loadedModels, modelContexts, task, nextSweepAt,
                   sessions, requests, unloaded, returned, response>>

\* no engine call is under way, in a handler or in the sweep
Quiescent ==
    /\ \A t \in Tasks : task[t].pc = "idle"
    /\ \A s \in Sweeps : sweeps[s].pc # "dispose"

\* the clock moves on when every engine call has ended: calls take less
\* than the period of the sweep
QuietTick == Quiescent /\ Tick

(* --------------------------- specification ----------------------------- *)
Init ==
    /\ now = 0
    /\ loadedModels = <<>>
    /\ modelContexts = [t \in Tasks |-> NoModelContext]
    /\ task = [t \in Tasks |-> IdleTask]
    /\ sweeps = [s \in Sweeps |-> IdleSweep]
    /\ nextSweepAt = SweepIntervalMs
    /\ sessions = [t \in Tasks |-> NoChatSession]
    /\ requests = 0
    /\ unloaded = {}
    /\ returned = NoReturn
    /\ response = NoResponse

\* the model cache: /v1/models/load, /v1/models/unload, the idle sweep
CacheNext ==
    \/ \E t \in Tasks, n \in ReqNames, ty \in ReqTypes : LoadRequest(t, n, ty)
    \/ \E t \in Tasks : LlamaLoadModelReturn(t)
    \/ \E t \in Tasks, code \in ErrorCodes : LlamaLoadModelThrow(t, code)
    \/ \E t \in Tasks : CreateContextReturn(t)
    \/ \E t \in Tasks, code \in ErrorCodes : CreateContextThrow(t, code)
    \/ \E t \in Tasks, n \in ReqNames : UnloadRequest(t, n)
    \/ \E t \in Tasks : UnloadDisposeReturn(t)
    \/ \E t \in Tasks, st \in {"live", "disposed"} : UnloadDisposeThrow(t, st)
    \/ SweepStart
    \/ \E s \in Sweeps : SweepDisposeReturn(s)
    \/ \E s \in Sweeps, st \in {"live", "disposed"} : SweepDisposeThrow(s, st)
    \/ Tick

Spec == Init /\ [][CacheNext]_vars

\* the same cache, with the smaller number of requests the sweep needs
SweepNext ==
    \/ \E t \in Tasks, n \in ReqNames, ty \in ReqTypes :
          requests < MaxSweepRequests /\ LoadRequest(t, n, ty)
    \/ \E t \in Tasks : LlamaLoadModelReturn(t)
    \/ \E t \in Tasks, code \in ErrorCodes : LlamaLoadModelThrow(t, code)
    \/ \E t \in Tasks : CreateContextReturn(t)
    \/ \E t \in Tasks, code \in ErrorCodes : CreateContextThrow(t, code)
    \/ \E t \in Tasks, n \in ReqNames :
          requests < MaxSweepRequests /\ UnloadRequest(t, n)
    \/ \E t \in Tasks : UnloadDisposeReturn(t)
    \/ \E t \in Tasks, st \in {"live", "disposed"} : UnloadDisposeThrow(t, st)
    \/ SweepStart
    \/ \E s \in Sweeps : SweepDisposeReturn(s)
    \/ \E s \in Sweeps, st \in {"live", "disposed"} : SweepDisposeThrow(s, st)
    \/ Tick

SpecSweep == Init /\ [][SweepNext]_vars

\* the management endpoints load and unload, for every type
ManageNext ==
    \/ \E t \in Tasks, n \in ReqNames, ty \in Types :
          requests < MaxManageRequests /\ LoadRequest(t, n, ty)
    \/ \E t \in Tasks : LlamaLoadModelReturn(t)
    \/ \E t \in Tasks, code \in ErrorCodes : LlamaLoadModelThrow(t, code)
    \/ \E t \in Tasks : CreateContextReturn(t)
    \/ \E t \in Tasks, code \in ErrorCodes : CreateContextThrow(t, code)
    \/ \E t \in Tasks, n \in UnloadNames :
          requests < MaxManageRequests /\ UnloadRequest(t, n)
    \/ \E t \in Tasks : UnloadDisposeReturn(t)
    \/ \E t \in Tasks, st \in {"live", "disposed"} : UnloadDisposeThrow(t, st)

SpecManage == Init /\ [][ManageNext]_vars

\* load and unload with names given with and without the extension
NamesNext ==
    \/ \E t \in Tasks, n \in NameForms, ty \in ReqTypes :
          requests < MaxNameRequests /\ LoadRequest(t, n, ty)
    \/ \E t \in Tasks : LlamaLoadModelReturn(t)
    \/ \E t \in Tasks, code \in ErrorCodes : LlamaLoadModelThrow(t, code)
    \/ \E t \in Tasks : CreateContextReturn(t)
    \/ \E t \in Tasks, code \in ErrorCodes : CreateContextThrow(t, code)
    \/ \E t \in Tasks, n \in NameForms :
          requests < MaxNameRequests /\ UnloadRequest(t, n)
    \/ \E t \in Tasks : UnloadDisposeReturn(t)
    \/ \E t \in Tasks, st \in {"live", "disposed"} : UnloadDisposeThrow(t, st)

SpecNames == Init /\ [][NamesNext]_vars

\* loads with any name and type, and the endpoints that need a context of
\* their category
CategoryNext ==
    \/ \E t \in Tasks, n \in AnyNames, ty \in Types :
          requests < MaxCategoryRequests /\ LoadRequest(t, n, ty)
    \/ \E t \in Tasks, n \in ReqNames, input \in StringInputs :
          requests < MaxCategoryRequests /\ EmbeddingsRequest(t, n, input)
    \/ \E t \in Tasks, n \in ReqNames :
          requests < MaxCategoryRequests /\ RerankRequest(t, n)
    \/ \E t \in Tasks : LlamaLoadModelReturn(t)
    \/ \E t \in Tasks, code \in ErrorCodes : LlamaLoadModelThrow(t, code)
    \/ \E t \in Tasks : CreateContextReturn(t)
    \/ \E t \in Tasks, code \in ErrorCodes : CreateContextThrow(t, code)
    \/ \E t \in Tasks : GetEmbeddingForReturn(t)
    \/ \E t \in Tasks, code \in ErrorCodes : GetEmbeddingForThrow(t, code)
    \/ \E t \in Tasks : RankAndSortReturn(t)
    \/ \E t \in Tasks, code \in ErrorCodes : RankAndSortThrow(t, code)

SpecCategory == Init /\ [][CategoryNext]_vars

\* GET /v1/models after, and while, models are loaded and unloaded
ListNext ==
    \/ \E t \in Tasks, n \in ReqNames, ty \in Types :
          requests < MaxListRequests /\ LoadRequest(t, n, ty)
    \/ \E t \in Tasks : LlamaLoadModelReturn(t)
    \/ \E t \in Tasks, code \in ErrorCodes : LlamaLoadModelThrow(t, code)
    \/ \E t \in Tasks : CreateContextReturn(t)
    \/ \E t \in Tasks, code \in ErrorCodes : CreateContextThrow(t, code)
    \/ \E t \in Tasks, n \in ReqNames :
          requests < MaxListRequests /\ UnloadRequest(t, n)
    \/ \E t \in Tasks : UnloadDisposeReturn(t)
    \/ \E t \in Tasks, st \in {"live", "disposed"} : UnloadDisposeThrow(t, st)
    \/ \E t \in Tasks : requests + 1 = MaxListRequests /\ ListRequest(t)
    \/ \E t \in Tasks, dir \in Types : ReaddirReturn(t, dir)
    \/ \E t \in Tasks, dir \in Types : ReaddirThrow(t, dir)

SpecList == Init /\ [][ListNext]_vars

\* concurrent requests of the embeddings endpoint with every shape of input
EmbedNext ==
    \/ \E t \in Tasks, n \in ReqNames, input \in Inputs :
          requests < MaxEmbedRequests /\ EmbeddingsRequest(t, n, input)
    \/ \E t \in Tasks : LlamaLoadModelReturn(t)
    \/ \E t \in Tasks, code \in ErrorCodes : LlamaLoadModelThrow(t, code)
    \/ \E t \in Tasks : CreateContextReturn(t)
    \/ \E t \in Tasks, code \in ErrorCodes : CreateContextThrow(t, code)
    \/ \E t \in Tasks : GetEmbeddingForReturn(t)
    \/ \E t \in Tasks, code \in ErrorCodes : GetEmbeddingForThrow(t, code)

SpecEmbed == Init /\ [][EmbedNext]_vars

\* the inference endpoints (embeddings of one string, rerank, chat
\* completions), with unload requests between their engine calls
InferNext ==
    \/ \E t \in Tasks, n \in ReqNames, input \in StringInputs :
          requests < MaxInferRequests /\ EmbeddingsRequest(t, n, input)
    \/ \E t \in Tasks, n \in ReqNames :
          requests < MaxInferRequests /\ RerankRequest(t, n)
    \/ \E t \in Tasks, n \in ReqNames :
          requests < MaxInferRequests /\ ChatRequest(t, n)
    \/ \E t \in Tasks : LlamaLoadModelReturn(t)
    \/ \E t \in Tasks, code \in ErrorCodes : LlamaLoadModelThrow(t, code)
    \/ \E t \in Tasks : CreateContextReturn(t)
    \/ \E t \in Tasks, code \in ErrorCodes : CreateContextThrow(t, code)
    \/ \E t \in Tasks : GetEmbeddingForReturn(t)
    \/ \E t \in Tasks, code \in ErrorCodes : GetEmbeddingForThrow(t, code)
    \/ \E t \in Tasks : RankAndSortReturn(t)
    \/ \E t \in Tasks, code \in ErrorCodes : RankAndSortThrow(t, code)
    \/ \E t \in Tasks : ChatCreateContextReturn(t)
    \/ \E t \in Tasks, code \in ErrorCodes : ChatCreateContextThrow(t, code)
    \/ \E t \in Tasks : PromptReturn(t)
    \/ \E t \in Tasks, code \in ErrorCodes : PromptThrow(t, code)
    \/ \E t \in Tasks, n \in ReqNames :
          requests < MaxInferRequests /\ UnloadRequest(t, n)
    \/ \E t \in Tasks : UnloadDisposeReturn(t)
    \/ \E t \in Tasks, st \in {"live", "disposed"} : UnloadDisposeThrow(t, st)

SpecInfer == Init /\ [][InferNext]_vars

\* The cache under the periodic sweep when every dispose() succeeds and
\* every engine call ends before the clock moves on.
IdleNext ==
    \/ \E t \in Tasks, n \in ReqNames, ty \in ReqTypes :
          requests < MaxIdleRequests /\ LoadRequest(t, n, ty)
    \/ \E t \in Tasks : LlamaLoadModelReturn(t)
    \/ \E t \in Tasks, code \in ErrorCodes : LlamaLoadModelThrow(t, code)
    \/ \E t \in Tasks : CreateContextReturn(t)
    \/ \E t \in Tasks, code \in ErrorCodes : CreateContextThrow(t, code)
    \/ \E t \in Tasks, n \in ReqNames :
          requests < MaxIdleRequests /\ UnloadRequest(t, n)
    \/ \E t \in Tasks : UnloadDisposeReturn(t)
    \/ SweepStart
    \/ \E s \in Sweeps : SweepDisposeReturn(s)
    \/ QuietTick

SpecIdle == Init /\ [][IdleNext]_vars

\* chat completions, with the sessions' timers and the idle sweep
ChatNext ==
    \/ \E t \in Tasks, n \in ReqNames : ChatRequest(t, n)
    \/ \E t \in Tasks : LlamaLoadModelReturn(t)
    \/ \E t \in Tasks, code \in ErrorCodes : LlamaLoadModelThrow(t, code)
    \/ \E t \in Tasks : ChatCreateContextReturn(t)
    \/ \E t \in Tasks, code \in ErrorCodes : ChatCreateContextThrow(t, code)
    \/ \E t \in Tasks : PromptReturn(t)
    \/ \E t \in Tasks, code \in ErrorCodes : PromptThrow(t, code)
    \/ \E i \in Tasks : SessionTimeout(i)
    \/ SweepStart
    \/ \E s \in Sweeps : SweepDisposeReturn(s)
    \/ \E s \in Sweeps, st \in {"live", "disposed"} : SweepDisposeThrow(s, st)
    \/ Tick

SpecChat == Init /\ [][ChatNext]_vars

\* one streaming chat completion, from the request to the end of its stream
StreamNext ==
    \/ \E t \in Tasks, n \in ReqNames : ChatStreamRequest(t, n)
    \/ \E t \in Tasks : LlamaLoadModelReturn(t)
    \/ \E t \in Tasks, code \in ErrorCodes : LlamaLoadModelThrow(t, code)
    \/ \E t \in Tasks : ChatCreateContextReturn(t)
    \/ \E t \in Tasks, code \in ErrorCodes : ChatCreateContextThrow(t, code)
    \/ \E t \in Tasks, token \in Tokens, swallowed \in BOOLEAN :
          OnTextChunk(t, token, swallowed)
    \/ \E t \in Tasks : StreamPromptReturn(t)
    \/ \E t \in Tasks : StreamPromptThrow(t)
    \/ \E t \in Tasks : ClientDisconnect(t)

SpecStream == Init /\ [][StreamNext]_vars


(* ------------------------------- claims -------------------------------- *)
Paths == {ModelPath(n, ty) : n \in ReqNames, ty \in Types}
CachedContexts == {loadedModels[i].ctx : i \in 1..Len(loadedModels)}

\* the calls of loadModel for path p that found it absent and have an engine
\* load of their own under way
LoadsInFlight(p) ==
    {t \in Tasks : task[t].modelPath = p
                   /\ task[t].pc \in {"llamaLoadModel", "createContext"}}

\* C1: loadModel calls for one path that overlap while the path is not cached
\* share a single engine load: no two of them run a load of their own.
C1_LoadCoalescing == \A p \in Paths : Cardinality(LoadsInFlight(p)) <= 1

\* the handles of path p the engine has loaded and not yet disposed
LiveHandles(p) ==
    {c \in Tasks : modelContexts[c].path = p
                   /\ modelContexts[c].state \in {"live", "disposing"}}

\* C2: no path ever has two model handles that are loaded and not disposed,
\* whether or not the Map still refers to them.
C2_OneLoadedModelPerIdentity == \A p \in Paths : Cardinality(LiveHandles(p)) <= 1

\* C3: loadModel never returns from the cache a record whose handle the sweep
\* has disposed or is disposing.
C3_SweepNeverEvictsReused ==
    ~(returned.hit /\ returned.by = "sweep"
      /\ returned.state \in {"disposing", "disposed"})

\* C4: when a run of the sweep ends, every entry it examined that was idle
\* longer than the threshold (now - lastUsed > maxAge at the time it was
\* examined) has been disposed and is out of the Map, and every entry it
\* examined within the threshold was neither disposed nor deleted by the run.
C4_SweepDecision ==
    \A s \in Sweeps : sweeps[s].pc = "done" =>
        \A e \in sweeps[s].examined :
            IF sweeps[s].now - e.lastUsed > MaxAgeMs
            THEN /\ e.ctx \in sweeps[s].disposed
                 /\ modelContexts[e.ctx].state = "disposed"
                 /\ e.ctx \notin CachedContexts
            ELSE /\ e.ctx \notin sweeps[s].disposed
                 /\ e.ctx \notin sweeps[s].removed

\* a run of the sweep has ended after it evicted one entry and kept another
C4_Witness ==
    \E s \in Sweeps :
        /\ sweeps[s].pc = "done"
        /\ \E e \in sweeps[s].examined : sweeps[s].now - e.lastUsed > MaxAgeMs
        /\ \E e \in sweeps[s].examined :
              /\ sweeps[s].now - e.lastUsed <= MaxAgeMs
              /\ e.ctx \in CachedContexts

\* C5: from the moment unload answers with success for a path until the next
\* loadModel call for it, the Map does not hold the path (so that call finds
\* it absent and loads the model afresh).
C5_FreshLoadAfterUnload == \A p \in unloaded : ~MapHas(loadedModels, p)

\* C6: once a loadModel call has failed for a path, the Map holds no entry
\* for that path (until another loadModel call ends), so that the next call
\* for it loads again.
C6_LoadFailureNotCached ==
    returned.error # "none" => ~MapHas(loadedModels, returned.path)

\* C7: a chat request whose session key is known and active gets the
\* existing session: no two active sessions are stored under one key.
C7_SessionContinuity ==
    \A i, j \in Tasks :
        (i # j /\ sessions[i].inMap /\ sessions[j].inMap)
            => sessions[i].id # sessions[j].id

\* C8: no two sessions ever created carry the same identifier.
C8_SessionIdsUnique ==
    \A i, j \in Tasks :
        (i # j /\ sessions[i].map # 0 /\ sessions[j].map # 0)
            => sessions[i].id # sessions[j].id

\* the last touch of session i before its timer ran: its last successful
\* prompt, or its creation
LastTouch(i) ==
    IF sessions[i].promptedAt >= 0 /\ sessions[i].promptedAt <= sessions[i].firedAt
    THEN sessions[i].promptedAt
    ELSE sessions[i].createdAt

\* C9: a session expires only when a full inactivity window has passed since
\* its last successful prompt.
C9_ExpiryFromLastTouch ==
    \A i \in Tasks :
        sessions[i].fired
            => sessions[i].firedAt - LastTouch(i) >= SessionTimeoutMs

\* The handler and the timer callback never dispose the context a session
\* was built on; it is released only when the engine disposes its model.
ContextReleased(i) == modelContexts[sessions[i].ctx].state = "disposed"

\* C10: when the timer of a session has run, the session is out of its table
\* and its generation context is released.
C10_ContextReleasedAtExpiry ==
    \A i \in Tasks :
        sessions[i].fired => (~sessions[i].inMap /\ ContextReleased(i))

\* the concatenation of delta.content over the chunk frames, [DONE] left out
RECURSIVE DeltaContent(_)
DeltaContent(frames) ==
    IF frames = <<>> THEN <<>>
    ELSE (IF Head(frames) = DoneFrame THEN <<>> ELSE Head(frames).content)
         \o DeltaContent(Tail(frames))

\* C11: the chunks of a stream, concatenated in the order they were emitted,
\* are the text the engine generated: all of it once the stream has closed
\* with [DONE], and all but the buffered rest while it is open.
C11_StreamEqualsText ==
    \A t \in Tasks :
        LET st == task[t].stream
        IN  /\ st.state = "closed" => DeltaContent(st.frames) = st.text
            /\ st.state = "readable"
                  => DeltaContent(st.frames) \o st.buffer = st.text

\* a stream has closed after a chunk cut at whitespace and a rest flushed
\* at the end of the generation
C11_Witness ==
    \E t \in Tasks :
        LET st == task[t].stream
        IN  /\ st.state = "closed"
            /\ Len(st.frames) >= 3
            /\ st.frames[1].finish = "null"
            /\ st.frames[Len(st.frames) - 1].finish = "stop"
            /\ HasWhitespace(st.text)

\* the places of [DONE] among the frames of a stream
DoneFrames(st) == {i \in 1..Len(st.frames) : st.frames[i] = DoneFrame}

\* C12: a stream carries [DONE] exactly if its generation completed with
\* success, then once, as its last frame, on a closed stream; a generation
\* that failed leaves the stream errored, without [DONE].
C12_StreamTermination ==
    \A t \in Tasks :
        LET st == task[t].stream
        IN  /\ task[t].pc = "streamPrompt" => DoneFrames(st) = {}
            /\ task[t].pc = "streamEnded" =>
                  /\ (DoneFrames(st) # {}) <=> (st.outcome = "resolved")
                  /\ DoneFrames(st) # {} =>
                        (DoneFrames(st) = {Len(st.frames)} /\ st.state = "closed")
                  /\ st.outcome = "rejected" =>
                        (st.state = "errored" /\ DoneFrames(st) = {})

\* C13: after the client has disconnected the producer stops at the next
\* chunk boundary: the engine hands it at most the chunk that was under way.
C13_Cancellation ==
    \A t \in Tasks :
        LET st == task[t].stream
        IN  st.cancelAt >= 0 => st.tokens - st.cancelAt <= 1

\* the categories under which name n is in the cache
CachedTypes(n) == {ty \in Types : MapHas(loadedModels, ModelPath(n, ty))}

\* this step is the unload handler receiving a request for name n
UnloadOf(n) ==
    /\ requests' = requests + 1
    /\ \/ task'[requests'].op = "unload" /\ task'[requests'].model = n
       \/ /\ task'[requests'].pc = "idle"
          /\ response'.op = "unload" /\ response'.model = n

\* C14: an unload of a name that no category holds in the cache answers 404
\* (not an error), calls no dispose and leaves the cache as it is.
C14_UnloadNotLoaded ==
    [][\A n \in UnloadNames :
          (UnloadOf(n) /\ CachedTypes(n) = {})
              => /\ response'.status = 404
                 /\ task'[requests'].pc = "idle"
                 /\ loadedModels' = loadedModels
                 /\ modelContexts' = modelContexts]_vars

\* an unload has answered 404 for a name that was unloaded before
C14_Witness ==
    \E ty \in Types :
        /\ response.op = "unload" /\ response.status = 404
        /\ response.model \in ReqNames
        /\ ModelPath(response.model, ty) \in unloaded
        /\ CachedTypes(response.model) = {}

\* the first of a set of categories in the order embedding, reranker, chat
FirstCategory(S) ==
    IF "embedding" \in S THEN "embedding"
    ELSE IF "reranker" \in S THEN "reranker" ELSE "chat"

\* C15: an unload of a name that is cached takes the entry of the first of
\* its categories in the order embedding, reranker, chat: it calls dispose
\* on the handle of that entry only, and when it answers it has removed
\* that entry and left every other entry of the Map as it was.
C15_UnloadFirstCategory ==
    [][\A t \in Tasks :
          /\ \A n \in UnloadNames :
                (UnloadOf(n) /\ t = requests' /\ CachedTypes(n) # {})
                    => LET p == ModelPath(n, FirstCategory(CachedTypes(n)))
                           c == MapGet(loadedModels, p)
                       IN  /\ task'[t].pc = "dispose"
                           /\ task'[t].modelPath = p
                           /\ loadedModels' = loadedModels
                           /\ modelContexts'[c].disposeCalls >= 1
                           /\ modelContexts'[c].state # "live"
                           /\ \A d \in Tasks \ {c} :
                                 modelContexts'[d] = modelContexts[d]
          /\ (task[t].op = "unload" /\ task[t].pc = "dispose"
                /\ task'[t].pc = "idle" /\ response'.status = 200)
                => /\ ~MapHas(loadedModels', task[t].modelPath)
                   /\ \A i \in 1..Len(loadedModels) :
                         loadedModels[i].path # task[t].modelPath
                             => \E j \in 1..Len(loadedModels') :
                                   loadedModels'[j] = loadedModels[i]
                   /\ Len(loadedModels') >= Len(loadedModels) - 1]_vars

\* an unload has disposed and removed the embedding entry of a name whose
\* chat entry stays in the cache
C15_Witness ==
    /\ response.op = "unload" /\ response.status = 200
    /\ response.path = ModelPath(response.model, "embedding")
    /\ response.path \in unloaded
    /\ CachedTypes(response.model) = {"chat"}
    /\ \E c \in Tasks : /\ modelContexts[c].path = response.path
                         /\ modelContexts[c].state = "disposed"

\* C16: each entry GET /v1/models computes has loaded true exactly if the
\* Map holds, at that moment, the path of the entry's file (its name with
\* .gguf, in the directory of its type).
C16_ListingAgreesWithCache ==
    [][\A t \in Tasks :
          (task[t].pc = "readdir" /\ task'[t] # task[t])
              => LET after == IF task'[t].pc = "readdir" THEN task'[t].listing
                              ELSE response'.models
                 IN  \A e \in after \ task[t].listing :
                        e.loaded <=>
                          \E i \in 1..Len(loadedModels) :
                             loadedModels[i].path
                               = [dir |-> e.type,
                                  file |-> Name(e.name.base, e.name.ext + 1)]]_vars

\* a listing is sent that shows as not loaded a model that was loaded,
\* then unloaded, and not loaded since
C16_Witness ==
    /\ response.op = "list" /\ response.status = 200
    /\ \E e \in response.models :
          ~e.loaded /\ PathJoin(e.type, Name(e.name.base, 1)) \in unloaded

\* C17: when the engine's load fails for a request of the embeddings, rerank
\* or chat endpoint, the answer is 404 with code "model_not_found" and the
\* attempted path in its message if the error's code is ENOENT, and 500
\* otherwise, and the cache is as it was.
C17_NotFoundMapping ==
    [][\A t \in Tasks :
          (task[t].pc = "llamaLoadModel" /\ task[t].op \in OpenAIOps
            /\ task'[t].pc = "idle")
              => /\ response'.op = task[t].op
                 /\ IF returned'.error = "ENOENT"
                    THEN /\ response'.status = 404
                         /\ response'.code = "model_not_found"
                         /\ response'.message = ModelPath(task[t].model,
                                                           task[t].type)
                    ELSE response'.status = 500
                 /\ loadedModels' = loadedModels]_vars

\* an embeddings request has been answered 404 for a missing file while
\* another model is in the cache
C17_Witness ==
    /\ response.op = "embeddings" /\ response.status = 404
    /\ response.code = "model_not_found"
    /\ returned.error = "ENOENT" /\ returned.path = response.message
    /\ loadedModels # <<>>

\* the number of texts of an input: a single string counts as one
InputCount(input) == IF input.array THEN Len(input.items) ELSE 1

\* entry i (from 0) of data has index i and is the embedding of input i
InInputOrder(data, input) ==
    \A i \in 0..(Len(data) - 1) :
        /\ data[i + 1].index = i
        /\ data[i + 1].embedding = Embed(input.items[i + 1])

\* C18: the data of an embeddings response has one entry per input text,
\* entry i with index i and the embedding of the i-th text; so have the
\* entries collected so far while the handler is at work.
C18_EmbeddingsOrder ==
    /\ (response.op = "embeddings" /\ response.status = 200)
          => /\ Len(response.data) = InputCount(response.input)
             /\ InInputOrder(response.data, response.input)
    /\ \A t \in Tasks :
          task[t].pc = "getEmbeddingFor"
              => /\ Len(task[t].embeddings) < InputCount(task[t].input)
                 /\ InInputOrder(task[t].embeddings, task[t].input)

\* an array of two different texts has been answered
C18_Witness ==
    /\ response.op = "embeddings" /\ response.status = 200
    /\ response.input.array
    /\ Len(response.data) = 2
    /\ response.data[1].embedding # response.data[2].embedding

\* the sweep is due, or a run of it is at work
Sweeping == now >= nextSweepAt \/ \E s \in Sweeps : sweeps[s].pc = "dispose"

EngineCallPcs ==
    {"createContext", "chatCreateContext", "prompt", "streamPrompt",
     "getEmbeddingFor", "rankAndSort"}

\* in this step the handler of request t starts such a call
CallStarts(t) ==
    /\ task'[t].pc \in EngineCallPcs
    /\ \/ task'[t].pc # task[t].pc
       \/ Len(task'[t].embeddings) # Len(task[t].embeddings)

\* C20: no handler starts an engine call on a model handle that has been
\* disposed.
C20_NoCallOnReleasedModel ==
    [][\A t \in Tasks :
          CallStarts(t) => modelContexts'[task'[t].ctx].state # "disposed"]_vars

\* C21: dispose() is called at most once on every model handle.
C21_DisposedAtMostOnce ==
    \A c \in Tasks : modelContexts[c].disposeCalls <= 1

\* C22: an unload of a name, given with or without the extension, that
\* loadModel has put in the cache under that name finds an entry of that
\* name and calls dispose on it; when dispose resolves the entry is removed
\* and the answer is 200.
C22_LoadUnloadRoundTrip ==
    [][\A t \in Tasks :
          /\ \A n \in NameForms :
                (UnloadOf(n) /\ t = requests' /\ CachedTypes(n) # {})
                    => /\ task'[t].pc = "dispose"
                       /\ \E ty \in CachedTypes(n) :
                             task'[t].modelPath = ModelPath(n, ty)
          /\ (task[t].op = "unload" /\ task[t].pc = "dispose"
                /\ task'[t].pc = "idle" /\ response'.status = 200)
                => ~MapHas(loadedModels', task[t].modelPath)]_vars

\* the text has a space or a newline in it
SpaceOrNewline(text) == \E i \in 1..Len(text) : text[i] \in {" ", "\n"}

\* the frames a step adds to a stream
NewFrames(st, st2) == SubSeq(st2.frames, Len(st.frames) + 1, Len(st2.frames))

\* C23: on a stream whose consumer is there, a token appended to the buffer
\* is followed by a chunk exactly if the buffer then has a space or a
\* newline in it; the chunk is the whole buffer, with finish_reason null,
\* and leaves the buffer empty, otherwise the buffer keeps the text. When
\* the generation completes, a chunk with finish_reason "stop" is emitted
\* exactly if the buffer is not empty, and it is the buffer. Every chunk
\* with finish_reason null is non-empty and has whitespace in it.
C23_WhitespaceBatching ==
    [][\A t \in Tasks :
          LET st == task[t].stream
              st2 == task'[t].stream
              b == st.buffer \o SubSeq(st2.text, Len(st.text) + 1, Len(st2.text))
          IN  (task[t].pc = "streamPrompt" /\ st.state = "readable")
                => /\ st2.tokens = st.tokens + 1
                        => IF SpaceOrNewline(b)
                           THEN /\ NewFrames(st, st2) = <<ChunkFrame(b, "null")>>
                                /\ st2.buffer = <<>>
                           ELSE /\ NewFrames(st, st2) = <<>>
                                /\ st2.buffer = b
                   /\ st2.outcome = "resolved"
                        => SelectSeq(NewFrames(st, st2),
                                     LAMBDA f : f.finish # "done")
                             = IF st.buffer # <<>>
                               THEN <<ChunkFrame(st.buffer, "stop")>>
                               ELSE <<>>
                   /\ \A i \in 1..Len(st2.frames) :
                         st2.frames[i].finish = "null"
                            => /\ st2.frames[i].content # <<>>
                               /\ SpaceOrNewline(st2.frames[i].content)]_vars

\* a generation has completed whose stream carries a chunk cut at a newline
\* and a last chunk with the rest of the text
C23_Witness ==
    \E t \in Tasks :
        LET st == task[t].stream
        IN  /\ st.state = "closed" /\ st.outcome = "resolved"
            /\ Len(st.frames) = 3
            /\ st.frames[1].finish = "null"
            /\ Includes(st.frames[1].content, "\n")
            /\ ~Includes(st.frames[1].content, " ")
            /\ st.frames[2] = ChunkFrame(<<"a">>, "stop")

\* C24: every entry of the cache has the embedding context exactly if its
\* key is in the directory of embedding models, and the ranking context
\* exactly if its key is in the directory of reranker models; and the
\* embeddings and rerank handlers never answer 400 "not suitable".
C24_CategoryContext ==
    /\ \A i \in 1..Len(loadedModels) :
          LET dir == loadedModels[i].path.dir
              mc == modelContexts[loadedModels[i].ctx]
          IN  /\ mc.embeddingContext <=> (dir = "embedding")
              /\ mc.rankingContext <=> (dir = "reranker")
    /\ ~(response.op \in {"embeddings", "rerank"} /\ response.status = 400)

====
